---- MODULE Spec2Model ----
(***************************************************************************)
(* Model of the LLM-Benchmarking drivers: the llama-cli log parser         *)
(* (benchmark_cli.parse_llama_output), the benchmark driver                *)
(* (benchmark_cli.run_llama_benchmark) with its menu action                *)
(* (main.run_benchmark_menu), the raw runner (inference.run_llama), the    *)
(* perplexity driver (ppl.ensure_wikitext2_corpus, ppl.compute_ppl) and    *)
(* the model preparation calls (hf_utils.convert_to_gguf, quantise_gguf).  *)
(*                                                                         *)
(* Text is a sequence of characters, each character a string: itself for   *)
(* the printable ASCII characters and "\t", "\n", "\r", "\f", and its code *)
(* point written "<U+XXXX>" for the others.  The regular expressions,      *)
(* str.strip, str.splitlines, float() and int() are computed character by  *)
(* character, as Python computes them.  The float or int read from a token *)
(* is the decimal its digits denote, kept as digit sequences [ip, fp]      *)
(* (integer part without leading zeros, fraction without trailing zeros),  *)
(* which names one double for tokens of up to 15 significant digits; a     *)
(* token too small for the doubles reads as 0.0, one too large as inf.     *)
(* Quotients and sums of doubles are kept as their operands, the rounding  *)
(* being the hardware's.                                                   *)
(***************************************************************************)
EXTENDS Integers, Sequences, FiniteSets, TLC

\* ------------------------------------------------------------------ bounds

\* Longest log text given to the parser, in lines.
MaxTextLines == 3

\* Longest prompt file, in lines.
MaxPromptLines == 2

\* Calls of run_benchmark_menu and run_llama made in one session.
MaxRuns == 2

\* Launches of llama-cli attempted in one session.
MaxLaunches == 2

\* Calls of compute_ppl made by one process.
MaxPplCalls == 2

\* ------------------------------------------------------- character classes

\* The line boundaries of str.splitlines() besides "\n", "\r" and "\r\n":
\* VT, FF, FS, GS, RS, NEL, LINE SEPARATOR and PARAGRAPH SEPARATOR.
LineBreakChars ==
  {"\n", "\r", "<U+000B>", "\f", "<U+001C>", "<U+001D>", "<U+001E>",
   "<U+0085>", "<U+2028>", "<U+2029>"}

\* The regex class \s of a str pattern, which is also what str.strip()
\* removes: the characters for which str.isspace() is true.
Ws ==
  LineBreakChars
    \cup {" ", "\t", "<U+001F>", "<U+00A0>", "<U+1680>", "<U+2000>",
          "<U+2001>", "<U+2002>", "<U+2003>", "<U+2004>", "<U+2005>",
          "<U+2006>", "<U+2007>", "<U+2008>", "<U+2009>", "<U+200A>",
          "<U+202F>", "<U+205F>", "<U+3000>"}

\* Decimal digits (category Nd of Unicode 14, 66 blocks of ten), each block
\* in the order of its values: what \d matches and int() and float() read.
DigitBlocks ==
  {<<"0", "1", "2", "3", "4",
     "5", "6", "7", "8", "9">>,
   <<"<U+0660>", "<U+0661>", "<U+0662>", "<U+0663>", "<U+0664>",
     "<U+0665>", "<U+0666>", "<U+0667>", "<U+0668>", "<U+0669>">>,
   <<"<U+06F0>", "<U+06F1>", "<U+06F2>", "<U+06F3>", "<U+06F4>",
     "<U+06F5>", "<U+06F6>", "<U+06F7>", "<U+06F8>", "<U+06F9>">>,
   <<"<U+07C0>", "<U+07C1>", "<U+07C2>", "<U+07C3>", "<U+07C4>",
     "<U+07C5>", "<U+07C6>", "<U+07C7>", "<U+07C8>", "<U+07C9>">>,
   <<"<U+0966>", "<U+0967>", "<U+0968>", "<U+0969>", "<U+096A>",
     "<U+096B>", "<U+096C>", "<U+096D>", "<U+096E>", "<U+096F>">>,
   <<"<U+09E6>", "<U+09E7>", "<U+09E8>", "<U+09E9>", "<U+09EA>",
     "<U+09EB>", "<U+09EC>", "<U+09ED>", "<U+09EE>", "<U+09EF>">>,
   <<"<U+0A66>", "<U+0A67>", "<U+0A68>", "<U+0A69>", "<U+0A6A>",
     "<U+0A6B>", "<U+0A6C>", "<U+0A6D>", "<U+0A6E>", "<U+0A6F>">>,
   <<"<U+0AE6>", "<U+0AE7>", "<U+0AE8>", "<U+0AE9>", "<U+0AEA>",
     "<U+0AEB>", "<U+0AEC>", "<U+0AED>", "<U+0AEE>", "<U+0AEF>">>,
   <<"<U+0B66>", "<U+0B67>", "<U+0B68>", "<U+0B69>", "<U+0B6A>",
     "<U+0B6B>", "<U+0B6C>", "<U+0B6D>", "<U+0B6E>", "<U+0B6F>">>,
   <<"<U+0BE6>", "<U+0BE7>", "<U+0BE8>", "<U+0BE9>", "<U+0BEA>",
     "<U+0BEB>", "<U+0BEC>", "<U+0BED>", "<U+0BEE>", "<U+0BEF>">>,
   <<"<U+0C66>", "<U+0C67>", "<U+0C68>", "<U+0C69>", "<U+0C6A>",
     "<U+0C6B>", "<U+0C6C>", "<U+0C6D>", "<U+0C6E>", "<U+0C6F>">>,
   <<"<U+0CE6>", "<U+0CE7>", "<U+0CE8>", "<U+0CE9>", "<U+0CEA>",
     "<U+0CEB>", "<U+0CEC>", "<U+0CED>", "<U+0CEE>", "<U+0CEF>">>,
   <<"<U+0D66>", "<U+0D67>", "<U+0D68>", "<U+0D69>", "<U+0D6A>",
     "<U+0D6B>", "<U+0D6C>", "<U+0D6D>", "<U+0D6E>", "<U+0D6F>">>,
   <<"<U+0DE6>", "<U+0DE7>", "<U+0DE8>", "<U+0DE9>", "<U+0DEA>",
     "<U+0DEB>", "<U+0DEC>", "<U+0DED>", "<U+0DEE>", "<U+0DEF>">>,
   <<"<U+0E50>", "<U+0E51>", "<U+0E52>", "<U+0E53>", "<U+0E54>",
     "<U+0E55>", "<U+0E56>", "<U+0E57>", "<U+0E58>", "<U+0E59>">>,
   <<"<U+0ED0>", "<U+0ED1>", "<U+0ED2>", "<U+0ED3>", "<U+0ED4>",
     "<U+0ED5>", "<U+0ED6>", "<U+0ED7>", "<U+0ED8>", "<U+0ED9>">>,
   <<"<U+0F20>", "<U+0F21>", "<U+0F22>", "<U+0F23>", "<U+0F24>",
     "<U+0F25>", "<U+0F26>", "<U+0F27>", "<U+0F28>", "<U+0F29>">>,
   <<"<U+1040>", "<U+1041>", "<U+1042>", "<U+1043>", "<U+1044>",
     "<U+1045>", "<U+1046>", "<U+1047>", "<U+1048>", "<U+1049>">>,
   <<"<U+1090>", "<U+1091>", "<U+1092>", "<U+1093>", "<U+1094>",
     "<U+1095>", "<U+1096>", "<U+1097>", "<U+1098>", "<U+1099>">>,
   <<"<U+17E0>", "<U+17E1>", "<U+17E2>", "<U+17E3>", "<U+17E4>",
     "<U+17E5>", "<U+17E6>", "<U+17E7>", "<U+17E8>", "<U+17E9>">>,
   <<"<U+1810>", "<U+1811>", "<U+1812>", "<U+1813>", "<U+1814>",
     "<U+1815>", "<U+1816>", "<U+1817>", "<U+1818>", "<U+1819>">>,
   <<"<U+1946>", "<U+1947>", "<U+1948>", "<U+1949>", "<U+194A>",
     "<U+194B>", "<U+194C>", "<U+194D>", "<U+194E>", "<U+194F>">>,
   <<"<U+19D0>", "<U+19D1>", "<U+19D2>", "<U+19D3>", "<U+19D4>",
     "<U+19D5>", "<U+19D6>", "<U+19D7>", "<U+19D8>", "<U+19D9>">>,
   <<"<U+1A80>", "<U+1A81>", "<U+1A82>", "<U+1A83>", "<U+1A84>",
     "<U+1A85>", "<U+1A86>", "<U+1A87>", "<U+1A88>", "<U+1A89>">>,
   <<"<U+1A90>", "<U+1A91>", "<U+1A92>", "<U+1A93>", "<U+1A94>",
     "<U+1A95>", "<U+1A96>", "<U+1A97>", "<U+1A98>", "<U+1A99>">>,
   <<"<U+1B50>", "<U+1B51>", "<U+1B52>", "<U+1B53>", "<U+1B54>",
     "<U+1B55>", "<U+1B56>", "<U+1B57>", "<U+1B58>", "<U+1B59>">>,
   <<"<U+1BB0>", "<U+1BB1>", "<U+1BB2>", "<U+1BB3>", "<U+1BB4>",
     "<U+1BB5>", "<U+1BB6>", "<U+1BB7>", "<U+1BB8>", "<U+1BB9>">>,
   <<"<U+1C40>", "<U+1C41>", "<U+1C42>", "<U+1C43>", "<U+1C44>",
     "<U+1C45>", "<U+1C46>", "<U+1C47>", "<U+1C48>", "<U+1C49>">>,
   <<"<U+1C50>", "<U+1C51>", "<U+1C52>", "<U+1C53>", "<U+1C54>",
     "<U+1C55>", "<U+1C56>", "<U+1C57>", "<U+1C58>", "<U+1C59>">>,
   <<"<U+A620>", "<U+A621>", "<U+A622>", "<U+A623>", "<U+A624>",
     "<U+A625>", "<U+A626>", "<U+A627>", "<U+A628>", "<U+A629>">>,
   <<"<U+A8D0>", "<U+A8D1>", "<U+A8D2>", "<U+A8D3>", "<U+A8D4>",
     "<U+A8D5>", "<U+A8D6>", "<U+A8D7>", "<U+A8D8>", "<U+A8D9>">>,
   <<"<U+A900>", "<U+A901>", "<U+A902>", "<U+A903>", "<U+A904>",
     "<U+A905>", "<U+A906>", "<U+A907>", "<U+A908>", "<U+A909>">>,
   <<"<U+A9D0>", "<U+A9D1>", "<U+A9D2>", "<U+A9D3>", "<U+A9D4>",
     "<U+A9D5>", "<U+A9D6>", "<U+A9D7>", "<U+A9D8>", "<U+A9D9>">>,
   <<"<U+A9F0>", "<U+A9F1>", "<U+A9F2>", "<U+A9F3>", "<U+A9F4>",
     "<U+A9F5>", "<U+A9F6>", "<U+A9F7>", "<U+A9F8>", "<U+A9F9>">>,
   <<"<U+AA50>", "<U+AA51>", "<U+AA52>", "<U+AA53>", "<U+AA54>",
     "<U+AA55>", "<U+AA56>", "<U+AA57>", "<U+AA58>", "<U+AA59>">>,
   <<"<U+ABF0>", "<U+ABF1>", "<U+ABF2>", "<U+ABF3>", "<U+ABF4>",
     "<U+ABF5>", "<U+ABF6>", "<U+ABF7>", "<U+ABF8>", "<U+ABF9>">>,
   <<"<U+FF10>", "<U+FF11>", "<U+FF12>", "<U+FF13>", "<U+FF14>",
     "<U+FF15>", "<U+FF16>", "<U+FF17>", "<U+FF18>", "<U+FF19>">>,
   <<"<U+104A0>", "<U+104A1>", "<U+104A2>", "<U+104A3>", "<U+104A4>",
     "<U+104A5>", "<U+104A6>", "<U+104A7>", "<U+104A8>", "<U+104A9>">>,
   <<"<U+10D30>", "<U+10D31>", "<U+10D32>", "<U+10D33>", "<U+10D34>",
     "<U+10D35>", "<U+10D36>", "<U+10D37>", "<U+10D38>", "<U+10D39>">>,
   <<"<U+11066>", "<U+11067>", "<U+11068>", "<U+11069>", "<U+1106A>",
     "<U+1106B>", "<U+1106C>", "<U+1106D>", "<U+1106E>", "<U+1106F>">>,
   <<"<U+110F0>", "<U+110F1>", "<U+110F2>", "<U+110F3>", "<U+110F4>",
     "<U+110F5>", "<U+110F6>", "<U+110F7>", "<U+110F8>", "<U+110F9>">>,
   <<"<U+11136>", "<U+11137>", "<U+11138>", "<U+11139>", "<U+1113A>",
     "<U+1113B>", "<U+1113C>", "<U+1113D>", "<U+1113E>", "<U+1113F>">>,
   <<"<U+111D0>", "<U+111D1>", "<U+111D2>", "<U+111D3>", "<U+111D4>",
     "<U+111D5>", "<U+111D6>", "<U+111D7>", "<U+111D8>", "<U+111D9>">>,
   <<"<U+112F0>", "<U+112F1>", "<U+112F2>", "<U+112F3>", "<U+112F4>",
     "<U+112F5>", "<U+112F6>", "<U+112F7>", "<U+112F8>", "<U+112F9>">>,
   <<"<U+11450>", "<U+11451>", "<U+11452>", "<U+11453>", "<U+11454>",
     "<U+11455>", "<U+11456>", "<U+11457>", "<U+11458>", "<U+11459>">>,
   <<"<U+114D0>", "<U+114D1>", "<U+114D2>", "<U+114D3>", "<U+114D4>",
     "<U+114D5>", "<U+114D6>", "<U+114D7>", "<U+114D8>", "<U+114D9>">>,
   <<"<U+11650>", "<U+11651>", "<U+11652>", "<U+11653>", "<U+11654>",
     "<U+11655>", "<U+11656>", "<U+11657>", "<U+11658>", "<U+11659>">>,
   <<"<U+116C0>", "<U+116C1>", "<U+116C2>", "<U+116C3>", "<U+116C4>",
     "<U+116C5>", "<U+116C6>", "<U+116C7>", "<U+116C8>", "<U+116C9>">>,
   <<"<U+11730>", "<U+11731>", "<U+11732>", "<U+11733>", "<U+11734>",
     "<U+11735>", "<U+11736>", "<U+11737>", "<U+11738>", "<U+11739>">>,
   <<"<U+118E0>", "<U+118E1>", "<U+118E2>", "<U+118E3>", "<U+118E4>",
     "<U+118E5>", "<U+118E6>", "<U+118E7>", "<U+118E8>", "<U+118E9>">>,
   <<"<U+11950>", "<U+11951>", "<U+11952>", "<U+11953>", "<U+11954>",
     "<U+11955>", "<U+11956>", "<U+11957>", "<U+11958>", "<U+11959>">>,
   <<"<U+11C50>", "<U+11C51>", "<U+11C52>", "<U+11C53>", "<U+11C54>",
     "<U+11C55>", "<U+11C56>", "<U+11C57>", "<U+11C58>", "<U+11C59>">>,
   <<"<U+11D50>", "<U+11D51>", "<U+11D52>", "<U+11D53>", "<U+11D54>",
     "<U+11D55>", "<U+11D56>", "<U+11D57>", "<U+11D58>", "<U+11D59>">>,
   <<"<U+11DA0>", "<U+11DA1>", "<U+11DA2>", "<U+11DA3>", "<U+11DA4>",
     "<U+11DA5>", "<U+11DA6>", "<U+11DA7>", "<U+11DA8>", "<U+11DA9>">>,
   <<"<U+16A60>", "<U+16A61>", "<U+16A62>", "<U+16A63>", "<U+16A64>",
     "<U+16A65>", "<U+16A66>", "<U+16A67>", "<U+16A68>", "<U+16A69>">>,
   <<"<U+16AC0>", "<U+16AC1>", "<U+16AC2>", "<U+16AC3>", "<U+16AC4>",
     "<U+16AC5>", "<U+16AC6>", "<U+16AC7>", "<U+16AC8>", "<U+16AC9>">>,
   <<"<U+16B50>", "<U+16B51>", "<U+16B52>", "<U+16B53>", "<U+16B54>",
     "<U+16B55>", "<U+16B56>", "<U+16B57>", "<U+16B58>", "<U+16B59>">>,
   <<"<U+1D7CE>", "<U+1D7CF>", "<U+1D7D0>", "<U+1D7D1>", "<U+1D7D2>",
     "<U+1D7D3>", "<U+1D7D4>", "<U+1D7D5>", "<U+1D7D6>", "<U+1D7D7>">>,
   <<"<U+1D7D8>", "<U+1D7D9>", "<U+1D7DA>", "<U+1D7DB>", "<U+1D7DC>",
     "<U+1D7DD>", "<U+1D7DE>", "<U+1D7DF>", "<U+1D7E0>", "<U+1D7E1>">>,
   <<"<U+1D7E2>", "<U+1D7E3>", "<U+1D7E4>", "<U+1D7E5>", "<U+1D7E6>",
     "<U+1D7E7>", "<U+1D7E8>", "<U+1D7E9>", "<U+1D7EA>", "<U+1D7EB>">>,
   <<"<U+1D7EC>", "<U+1D7ED>", "<U+1D7EE>", "<U+1D7EF>", "<U+1D7F0>",
     "<U+1D7F1>", "<U+1D7F2>", "<U+1D7F3>", "<U+1D7F4>", "<U+1D7F5>">>,
   <<"<U+1D7F6>", "<U+1D7F7>", "<U+1D7F8>", "<U+1D7F9>", "<U+1D7FA>",
     "<U+1D7FB>", "<U+1D7FC>", "<U+1D7FD>", "<U+1D7FE>", "<U+1D7FF>">>,
   <<"<U+1E140>", "<U+1E141>", "<U+1E142>", "<U+1E143>", "<U+1E144>",
     "<U+1E145>", "<U+1E146>", "<U+1E147>", "<U+1E148>", "<U+1E149>">>,
   <<"<U+1E2F0>", "<U+1E2F1>", "<U+1E2F2>", "<U+1E2F3>", "<U+1E2F4>",
     "<U+1E2F5>", "<U+1E2F6>", "<U+1E2F7>", "<U+1E2F8>", "<U+1E2F9>">>,
   <<"<U+1E950>", "<U+1E951>", "<U+1E952>", "<U+1E953>", "<U+1E954>",
     "<U+1E955>", "<U+1E956>", "<U+1E957>", "<U+1E958>", "<U+1E959>">>,
   <<"<U+1FBF0>", "<U+1FBF1>", "<U+1FBF2>", "<U+1FBF3>", "<U+1FBF4>",
     "<U+1FBF5>", "<U+1FBF6>", "<U+1FBF7>", "<U+1FBF8>", "<U+1FBF9>">>}

\* The regex class \d of a str pattern.
Digits == UNION {{blk[i] : i \in 1..10} : blk \in DigitBlocks}

\* The regex class [\d\.]
DigDot == Digits \cup {"."}

\* The value of each digit: its place in its block.
DigitValues ==
  [c \in Digits |-> CHOOSE v \in 0..9 : \E blk \in DigitBlocks : blk[v + 1] = c]

DigitVal(c) == DigitValues[c]

\* ------------------------------------------------------- string primitives

\* s[i..] starts with the literal lit.
HasAt(s, i, lit) ==
  /\ i >= 1
  /\ i + Len(lit) - 1 <= Len(s)
  /\ \A j \in 1..Len(lit) : s[i + j - 1] = lit[j]

\* "lit in s" of Python.
Contains(s, lit) == \E i \in 1..(Len(s) + 1) : HasAt(s, i, lit)

\* The position just after the longest run of characters of class cls that
\* starts at i (i itself when s[i] is not in cls): a greedy cls*.
SkipClass(s, i, cls) ==
  CHOOSE j \in i..(Len(s) + 1) :
    /\ \A k \in i..(j - 1) : s[k] \in cls
    /\ (j = Len(s) + 1 \/ s[j] \notin cls)

\* str.strip(): leading and trailing whitespace removed.
Strip(s) ==
  LET a == SkipClass(s, 1, Ws)
      b == IF a > Len(s) THEN a - 1
           ELSE CHOOSE j \in a..Len(s) :
                  /\ s[j] \notin Ws
                  /\ \A k \in (j + 1)..Len(s) : s[k] \in Ws
  IN SubSeq(s, a, b)

\* ------------------------------------------------------------------ numbers

\* The number zero: 0, and 0.0.
Zero == [ip |-> << >>, fp |-> << >>]

\* A digit sequence without its leading zeros.
StripLeadingZeros(ds) ==
  LET nz == {i \in 1..Len(ds) : ds[i] # 0}
  IN IF nz = {} THEN << >>
     ELSE SubSeq(ds, CHOOSE i \in nz : \A j \in nz : i <= j, Len(ds))

\* A digit sequence without its trailing zeros.
StripTrailingZeros(ds) ==
  LET nz == {i \in 1..Len(ds) : ds[i] # 0}
  IN IF nz = {} THEN << >>
     ELSE SubSeq(ds, 1, CHOOSE i \in nz : \A j \in nz : i >= j)

\* The values of the digits of a run of digit characters.
DigitSeq(tok) == [i \in 1..Len(tok) |-> DigitVal(tok[i])]

\* sys.get_int_max_str_digits(): int() raises ValueError for a string of
\* more digits.
MaxStrDigits == 4300

\* int(tok) for a token of the class \d+ returns (the leading zeros count).
IntOk(tok) == Len(tok) <= MaxStrDigits

\* int(tok) for a token of the class \d+.
IntVal(tok) == [ip |-> StripLeadingZeros(DigitSeq(tok)), fp |-> << >>]

\* float(tok) for a token of the class [\d\.]+ : well formed when it holds at
\* most one dot and at least one digit; any other token makes float() raise
\* ValueError.
FloatOk(tok) ==
  /\ Cardinality({i \in 1..Len(tok) : tok[i] = "."}) <= 1
  /\ \E i \in 1..Len(tok) : tok[i] \in Digits

\* a <= b for digit sequences read as the fractions 0.a1a2... and 0.b1b2...
FractionLeq(a, b) ==
  LET da(i) == IF i <= Len(a) THEN a[i] ELSE 0
      db(i) == IF i <= Len(b) THEN b[i] ELSE 0
      n == IF Len(a) >= Len(b) THEN Len(a) ELSE Len(b)
      diff == {i \in 1..n : da(i) # db(i)}
  IN \/ diff = {}
     \/ LET i == CHOOSE x \in diff : \A y \in diff : x <= y
        IN da(i) < db(i)

\* The digits of 2^-1075 = 5^1075 / 10^1075, half the smallest positive
\* double, after its 323 leading zeros: float() gives 0.0 for a decimal
\* that is not above it (the tie goes to the even neighbour, 0.0).
HalfMinDouble ==
  <<2, 4, 7, 0, 3, 2, 8, 2, 2, 9, 2, 0, 6, 2, 3, 2, 7, 2, 0, 8, 8, 2, 8, 4,
  3, 9, 6, 4, 3, 4, 1, 1, 0, 6, 8, 6, 1, 8, 2, 5, 2, 9, 9, 0, 1, 3, 0, 7, 1,
  6, 2, 3, 8, 2, 2, 1, 2, 7, 9, 2, 8, 4, 1, 2, 5, 0, 3, 3, 7, 7, 5, 3, 6, 3,
  5, 1, 0, 4, 3, 7, 5, 9, 3, 2, 6, 4, 9, 9, 1, 8, 1, 8, 0, 8, 1, 7, 9, 9, 6,
  1, 8, 9, 8, 9, 8, 2, 8, 2, 3, 4, 7, 7, 2, 2, 8, 5, 8, 8, 6, 5, 4, 6, 3, 3,
  2, 8, 3, 5, 5, 1, 7, 7, 9, 6, 9, 8, 9, 8, 1, 9, 9, 3, 8, 7, 3, 9, 8, 0, 0,
  5, 3, 9, 0, 9, 3, 9, 0, 6, 3, 1, 5, 0, 3, 5, 6, 5, 9, 5, 1, 5, 5, 7, 0, 2,
  2, 6, 3, 9, 2, 2, 9, 0, 8, 5, 8, 3, 9, 2, 4, 4, 9, 1, 0, 5, 1, 8, 4, 4, 3,
  5, 9, 3, 1, 8, 0, 2, 8, 4, 9, 9, 3, 6, 5, 3, 6, 1, 5, 2, 5, 0, 0, 3, 1, 9,
  3, 7, 0, 4, 5, 7, 6, 7, 8, 2, 4, 9, 2, 1, 9, 3, 6, 5, 6, 2, 3, 6, 6, 9, 8,
  6, 3, 6, 5, 8, 4, 8, 0, 7, 5, 7, 0, 0, 1, 5, 8, 5, 7, 6, 9, 2, 6, 9, 9, 0,
  3, 7, 0, 6, 3, 1, 1, 9, 2, 8, 2, 7, 9, 5, 5, 8, 5, 5, 1, 3, 3, 2, 9, 2, 7,
  8, 3, 4, 3, 3, 8, 4, 0, 9, 3, 5, 1, 9, 7, 8, 0, 1, 5, 5, 3, 1, 2, 4, 6, 5,
  9, 7, 2, 6, 3, 5, 7, 9, 5, 7, 4, 6, 2, 2, 7, 6, 6, 4, 6, 5, 2, 7, 2, 8, 2,
  7, 2, 2, 0, 0, 5, 6, 3, 7, 4, 0, 0, 6, 4, 8, 5, 4, 9, 9, 9, 7, 7, 0, 9, 6,
  5, 9, 9, 4, 7, 0, 4, 5, 4, 0, 2, 0, 8, 2, 8, 1, 6, 6, 2, 2, 6, 2, 3, 7, 8,
  5, 7, 3, 9, 3, 4, 5, 0, 7, 3, 6, 3, 3, 9, 0, 0, 7, 9, 6, 7, 7, 6, 1, 9, 3,
  0, 5, 7, 7, 5, 0, 6, 7, 4, 0, 1, 7, 6, 3, 2, 4, 6, 7, 3, 6, 0, 0, 9, 6, 8,
  9, 5, 1, 3, 4, 0, 5, 3, 5, 5, 3, 7, 4, 5, 8, 5, 1, 6, 6, 6, 1, 1, 3, 4, 2,
  2, 3, 7, 6, 6, 6, 7, 8, 6, 0, 4, 1, 6, 2, 1, 5, 9, 6, 8, 0, 4, 6, 1, 9, 1,
  4, 4, 6, 7, 2, 9, 1, 8, 4, 0, 3, 0, 0, 5, 3, 0, 0, 5, 7, 5, 3, 0, 8, 4, 9,
  0, 4, 8, 7, 6, 5, 3, 9, 1, 7, 1, 1, 3, 8, 6, 5, 9, 1, 6, 4, 6, 2, 3, 9, 5,
  2, 4, 9, 1, 2, 6, 2, 3, 6, 5, 3, 8, 8, 1, 8, 7, 9, 6, 3, 6, 2, 3, 9, 3, 7,
  3, 2, 8, 0, 4, 2, 3, 8, 9, 1, 0, 1, 8, 6, 7, 2, 3, 4, 8, 4, 9, 7, 6, 6, 8,
  2, 3, 5, 0, 8, 9, 8, 6, 3, 3, 8, 8, 5, 8, 7, 9, 2, 5, 6, 2, 8, 3, 0, 2, 7,
  5, 5, 9, 9, 5, 6, 5, 7, 5, 2, 4, 4, 5, 5, 5, 0, 7, 2, 5, 5, 1, 8, 9, 3, 1,
  3, 6, 9, 0, 8, 3, 6, 2, 5, 4, 7, 7, 9, 1, 8, 6, 9, 4, 8, 6, 6, 7, 9, 9, 4,
  9, 6, 8, 3, 2, 4, 0, 4, 9, 7, 0, 5, 8, 2, 1, 0, 2, 8, 5, 1, 3, 1, 8, 5, 4,
  5, 1, 3, 9, 6, 2, 1, 3, 8, 3, 7, 7, 2, 2, 8, 2, 6, 1, 4, 5, 4, 3, 7, 6, 9,
  3, 4, 1, 2, 5, 3, 2, 0, 9, 8, 5, 9, 1, 3, 2, 7, 6, 6, 7, 2, 3, 6, 3, 2, 8,
  1, 2, 5>>

\* 0.[323 zeros][sig] <= 2^-1075
NotAboveHalfMinDouble(sig) == FractionLeq(sig, HalfMinDouble)

\* The digits of 2^1024 - 2^970, half a step above the largest double:
\* float() gives inf for a decimal that is not below it.
OverMaxDouble ==
  <<1, 7, 9, 7, 6, 9, 3, 1, 3, 4, 8, 6, 2, 3, 1, 5, 8, 0, 7, 9, 3, 7, 2, 8,
  9, 7, 1, 4, 0, 5, 3, 0, 3, 4, 1, 5, 0, 7, 9, 9, 3, 4, 1, 3, 2, 7, 1, 0, 0,
  3, 7, 8, 2, 6, 9, 3, 6, 1, 7, 3, 7, 7, 8, 9, 8, 0, 4, 4, 4, 9, 6, 8, 2, 9,
  2, 7, 6, 4, 7, 5, 0, 9, 4, 6, 6, 4, 9, 0, 1, 7, 9, 7, 7, 5, 8, 7, 2, 0, 7,
  0, 9, 6, 3, 3, 0, 2, 8, 6, 4, 1, 6, 6, 9, 2, 8, 8, 7, 9, 1, 0, 9, 4, 6, 5,
  5, 5, 5, 4, 7, 8, 5, 1, 9, 4, 0, 4, 0, 2, 6, 3, 0, 6, 5, 7, 4, 8, 8, 6, 7,
  1, 5, 0, 5, 8, 2, 0, 6, 8, 1, 9, 0, 8, 9, 0, 2, 0, 0, 0, 7, 0, 8, 3, 8, 3,
  6, 7, 6, 2, 7, 3, 8, 5, 4, 8, 4, 5, 8, 1, 7, 7, 1, 1, 5, 3, 1, 7, 6, 4, 4,
  7, 5, 7, 3, 0, 2, 7, 0, 0, 6, 9, 8, 5, 5, 5, 7, 1, 3, 6, 6, 9, 5, 9, 6, 2,
  2, 8, 4, 2, 9, 1, 4, 8, 1, 9, 8, 6, 0, 8, 3, 4, 9, 3, 6, 4, 7, 5, 2, 9, 2,
  7, 1, 9, 0, 7, 4, 1, 6, 8, 4, 4, 4, 3, 6, 5, 5, 1, 0, 7, 0, 4, 3, 4, 2, 7,
  1, 1, 5, 5, 9, 6, 9, 9, 5, 0, 8, 0, 9, 3, 0, 4, 2, 8, 8, 0, 1, 7, 7, 9, 0,
  4, 1, 7, 4, 4, 9, 7, 7, 9, 2>>

\* float() of a decimal too large for the doubles.
Inf == [ip |-> <<"inf">>, fp |-> << >>]

\* The value of a well-formed token: the decimal it denotes, 0.0 when that
\* decimal underflows the doubles and inf when it overflows them.
FloatVal(tok) ==
  LET dots == {i \in 1..Len(tok) : tok[i] = "."}
      d    == IF dots = {} THEN Len(tok) + 1 ELSE CHOOSE i \in dots : TRUE
      ip   == StripLeadingZeros(DigitSeq(SubSeq(tok, 1, d - 1)))
      fp   == StripTrailingZeros(DigitSeq(SubSeq(tok, d + 1, Len(tok))))
      sig  == StripLeadingZeros(fp)
      z    == Len(fp) - Len(sig)
  IN IF ip = << >> /\ fp # << >>
        /\ (z >= 324 \/ (z = 323 /\ NotAboveHalfMinDouble(sig)))
     THEN Zero
     ELSE IF \/ Len(ip) > Len(OverMaxDouble)
             \/ Len(ip) = Len(OverMaxDouble) /\ FractionLeq(OverMaxDouble, ip)
          THEN Inf
          ELSE [ip |-> ip, fp |-> fp]

\* x / 1000.0: the double nearest to the quotient, which is fixed by x and
\* is kept as the pair of its operands.
Div1000(x) == [num |-> x, den |-> 1000]

\* ------------------------------------------------------ regular expressions

\* The literals of the patterns.
LitLoadTime == <<"l", "o", "a", "d", " ", "t", "i", "m", "e">>
LitEvalTime == <<"e", "v", "a", "l", " ", "t", "i", "m", "e">>
LitPromptEval == <<"p", "r", "o", "m", "p", "t", " ", "e", "v", "a", "l">>
LitMs == <<"m", "s">>
LitRuns == <<"r", "u", "n", "s">>
LitMsPerToken ==
  <<"m", "s", " ", "p", "e", "r", " ", "t", "o", "k", "e", "n", ",">>
LitTokS == <<"t", "o", "k", "/", "s">>
LitTokensPerSecond ==
  <<"t", "o", "k", "e", "n", "s", " ", "p", "e", "r", " ",
    "s", "e", "c", "o", "n", "d">>

\* No match of a pattern: a group of [\d\.]+ or \d+ is never empty.
NoMatch == << >>

\* kw\s*=\s*([\d\.]+)\s*ms matched at position i: [ok, group, end], end being
\* the position just after "ms".
TimeAt(s, i, kw) ==
  LET a == i + Len(kw)
      b == SkipClass(s, a, Ws)
      c == SkipClass(s, b + 1, Ws)
      d == SkipClass(s, c, DigDot)
      e == SkipClass(s, d, Ws)
  IN IF /\ HasAt(s, i, kw)
        /\ HasAt(s, b, <<"=">>)
        /\ d > c
        /\ HasAt(s, e, LitMs)
     THEN [ok |-> TRUE, group |-> SubSeq(s, c, d - 1), end |-> e + 2]
     ELSE [ok |-> FALSE, group |-> NoMatch, end |-> 0]

\* re.search(kw\s*=\s*([\d\.]+)\s*ms, s).group(1): the leftmost match.
SearchTime(s, kw) ==
  LET hits == {i \in 1..Len(s) : TimeAt(s, i, kw).ok}
  IN IF hits = {} THEN NoMatch
     ELSE TimeAt(s, CHOOSE i \in hits : \A j \in hits : i <= j, kw).group

\* eval time\s*=\s*[\d\.]+\s*ms\s*/\s*(\d+)\s*runs matched at position i.
RunsAt(s, i) ==
  LET t == TimeAt(s, i, LitEvalTime)
      a == SkipClass(s, t.end, Ws)
      b == SkipClass(s, a + 1, Ws)
      c == SkipClass(s, b, Digits)
      d == SkipClass(s, c, Ws)
  IN IF /\ t.ok
        /\ HasAt(s, a, <<"/">>)
        /\ c > b
        /\ HasAt(s, d, LitRuns)
     THEN SubSeq(s, b, c - 1)
     ELSE NoMatch

SearchRuns(s) ==
  LET hits == {i \in 1..Len(s) : RunsAt(s, i) # NoMatch}
  IN IF hits = {} THEN NoMatch
     ELSE RunsAt(s, CHOOSE i \in hits : \A j \in hits : i <= j)

\* \(\s*[\d\.]+\s*ms per token,\s*([\d\.]+)\s*(?:tok/s|tokens per second)\)
\* matched at position i.
TpsAt(s, i) ==
  LET a == SkipClass(s, i + 1, Ws)
      b == SkipClass(s, a, DigDot)
      c == SkipClass(s, b, Ws)
      d == SkipClass(s, c + Len(LitMsPerToken), Ws)
      e == SkipClass(s, d, DigDot)
      f == SkipClass(s, e, Ws)
  IN IF /\ HasAt(s, i, <<"(">>)
        /\ b > a
        /\ HasAt(s, c, LitMsPerToken)
        /\ e > d
        /\ \/ HasAt(s, f, LitTokS \o <<")">>)
           \/ HasAt(s, f, LitTokensPerSecond \o <<")">>)
     THEN SubSeq(s, d, e - 1)
     ELSE NoMatch

SearchTps(s) ==
  LET hits == {i \in 1..Len(s) : TpsAt(s, i) # NoMatch}
  IN IF hits = {} THEN NoMatch
     ELSE TpsAt(s, CHOOSE i \in hits : \A j \in hits : i <= j)

\* ------------------------------------------------------------ parser model

\* str.splitlines(): the text cut at every line boundary ("\r\n" being one
\* boundary), the lines without their terminators, and no empty last line
\* after a final boundary.
RECURSIVE SplitLines(_)
SplitLines(s) ==
  IF s = << >> THEN << >>
  ELSE LET brks == {i \in 1..Len(s) : s[i] \in LineBreakChars}
       IN IF brks = {} THEN <<s>>
          ELSE LET i == CHOOSE x \in brks : \A y \in brks : x <= y
                   n == IF s[i] = "\r" /\ i < Len(s) /\ s[i + 1] = "\n"
                        THEN 2 ELSE 1
               IN <<SubSeq(s, 1, i - 1)>>
                    \o SplitLines(SubSeq(s, i + n, Len(s)))

\* eval_line = None (an empty line cannot hold "eval time", and is falsy too).
NoLine == << >>

\* The loop without its break: the last matching line wins.
RECURSIVE FirstEvalLine_NoBreak(_, _)
FirstEvalLine_NoBreak(lines, k) ==
  IF k > Len(lines) THEN NoLine
  ELSE LET later == FirstEvalLine_NoBreak(lines, k + 1)
       IN IF later # NoLine THEN later
          ELSE IF /\ Contains(lines[k], LitEvalTime)
                  /\ ~Contains(lines[k], LitPromptEval)
               THEN lines[k]
               ELSE NoLine

\* The loop of lines 42-46 from line k on: the first line that holds
\* "eval time" and does not hold "prompt eval", and no later one (break).
RECURSIVE FirstEvalLine(_, _)
FirstEvalLine(lines, k) ==
  IF k > Len(lines) THEN NoLine
  ELSE IF Contains(lines[k], LitEvalTime) /\ ~Contains(lines[k], LitPromptEval)
       THEN lines[k]
       ELSE FirstEvalLine(lines, k + 1)

\* The metrics dictionary of lines 29-34, with the exception that left the
\* function ("none" when it returned).
DefaultMetrics ==
  [exc |-> "none", load_s |-> Zero, eval_s |-> Zero, tokens |-> Zero,
   tps |-> Zero]

\* float() or int() raised ValueError: nothing is returned.
RaisedValueError ==
  [exc |-> "ValueError", load_s |-> Zero, eval_s |-> Zero, tokens |-> Zero,
   tps |-> Zero]

\* Lines 36-39: the load time, searched in the whole text.
ParseLoad(text, m) ==
  LET g == SearchTime(text, LitLoadTime)
  IN IF g = NoMatch THEN m
     ELSE IF ~FloatOk(g) THEN RaisedValueError
     ELSE [m EXCEPT !.load_s = Div1000(FloatVal(g))]

\* Lines 49-51: the eval time of the selected line.
ParseEval(line, m) ==
  LET g == SearchTime(line, LitEvalTime)
  IN IF m.exc # "none" \/ g = NoMatch THEN m
     ELSE IF ~FloatOk(g) THEN RaisedValueError
     ELSE [m EXCEPT !.eval_s = Div1000(FloatVal(g))]

\* Lines 53-58: tokens per second of the selected line.
ParseTps(line, m) ==
  LET g == SearchTps(line)
  IN IF m.exc # "none" \/ g = NoMatch THEN m
     ELSE IF ~FloatOk(g) THEN RaisedValueError
     ELSE [m EXCEPT !.tps = FloatVal(g)]

\* Lines 60-65: the token count of the selected line (a plain integer).
ParseTokens(line, m) ==
  LET g == SearchRuns(line)
  IN IF m.exc # "none" \/ g = NoMatch THEN m
     ELSE IF ~IntOk(g) THEN RaisedValueError
     ELSE [m EXCEPT !.tokens = IntVal(g)]

parse_llama_output(stderr_output) ==
  LET m1 == ParseLoad(stderr_output, DefaultMetrics)
      eval_line == FirstEvalLine(SplitLines(stderr_output), 1)
  IN IF m1.exc # "none" \/ eval_line = NoLine THEN m1
     ELSE ParseTokens(eval_line, ParseTps(eval_line, ParseEval(eval_line, m1)))

\* ------------------------------------------------- log texts given as input

LineLoad ==
  <<"l", "o", "a", "d", " ", "t", "i", "m", "e", " ", "=", " ", "2", "5",
    "0", ".", "5", " ", "m", "s">>

LinePromptEval ==
  <<"p", "r", "o", "m", "p", "t", " ", "e", "v", "a", "l", " ", "t", "i",
    "m", "e", " ", "=", " ", "8", "0", " ", "m", "s", " ", "/", " ", "4",
    " ", "r", "u", "n", "s", " ", "(", "2", "0", " ", "m", "s", " ", "p",
    "e", "r", " ", "t", "o", "k", "e", "n", ",", " ", "5", "0", " ", "t",
    "o", "k", "/", "s", ")">>

LineEvalParenA ==
  <<"e", "v", "a", "l", " ", "t", "i", "m", "e", " ", "=", " ", "1", "0",
    "0", " ", "m", "s", " ", "/", " ", "1", "0", " ", "r", "u", "n", "s",
    " ", "(", "1", "0", " ", "m", "s", " ", "p", "e", "r", " ", "t", "o",
    "k", "e", "n", ",", " ", "1", "2", ".", "3", "4", " ", "t", "o", "k",
    "e", "n", "s", " ", "p", "e", "r", " ", "s", "e", "c", "o", "n", "d",
    ")">>

LineEvalParenB ==
  <<"e", "v", "a", "l", " ", "t", "i", "m", "e", " ", "=", " ", "2", "0",
    "0", " ", "m", "s", " ", "/", " ", "2", "0", " ", "r", "u", "n", "s",
    " ", "(", " ", "5", " ", "m", "s", " ", "p", "e", "r", " ", "t", "o",
    "k", "e", "n", ",", " ", "7", ".", "5", " ", "t", "o", "k", "/", "s",
    ")">>

LineEvalBare ==
  <<"e", "v", "a", "l", " ", "t", "i", "m", "e", " ", "=", " ", "1", "0",
    "0", " ", "m", "s", " ", "/", " ", "1", "0", " ", "r", "u", "n", "s",
    " ", "1", "2", ".", "3", "4", " ", "t", "o", "k", "/", "s">>

LineEvalBareLong ==
  <<"e", "v", "a", "l", " ", "t", "i", "m", "e", " ", "=", " ", "1", "0",
    "0", " ", "m", "s", " ", "/", " ", "1", "0", " ", "r", "u", "n", "s",
    " ", "1", "2", ".", "3", "4", " ", "t", "o", "k", "e", "n", "s", " ",
    "p", "e", "r", " ", "s", "e", "c", "o", "n", "d">>

LineEvalEmpty ==
  <<"e", "v", "a", "l", " ", "t", "i", "m", "e", ":", " ", "n", "/", "a">>

LineEvalBadNum ==
  <<"e", "v", "a", "l", " ", "t", "i", "m", "e", " ", "=", " ", "1", ".",
    "2", ".", "3", " ", "m", "s">>

LineLoadBadNum ==
  <<"l", "o", "a", "d", " ", "t", "i", "m", "e", " ", "=", " ", ".", " ",
    "m", "s">>

LineEvalBadTps ==
  <<"e", "v", "a", "l", " ", "t", "i", "m", "e", " ", "=", " ", "1", "0",
    "0", " ", "m", "s", " ", "(", "1", "0", " ", "m", "s", " ", "p", "e",
    "r", " ", "t", "o", "k", "e", "n", ",", " ", "1", ".", "2", ".", "3",
    " ", "t", "o", "k", "/", "s", ")">>

LineEvalNoRuns ==
  <<"e", "v", "a", "l", " ", "t", "i", "m", "e", " ", "=", " ", "1", "0",
    "0", " ", "m", "s", " ", "(", "1", "0", " ", "m", "s", " ", "p", "e",
    "r", " ", "t", "o", "k", "e", "n", ",", " ", "5", " ", "t", "o", "k",
    "/", "s", ")">>

\* A form feed, a line boundary of splitlines, before the parenthetical.
LineEvalFormFeed ==
  <<"e", "v", "a", "l", " ", "t", "i", "m", "e", " ", "=", " ", "1", "0",
    "0", " ", "m", "s", " ", "/", " ", "1", "0", " ", "r", "u", "n", "s",
    "\f", "(", "1", "0", " ", "m", "s", " ", "p", "e", "r", " ", "t", "o",
    "k", "e", "n", ",", " ", "5", " ", "t", "o", "k", "/", "s", ")">>

\* Digits outside ASCII, a no-break space, and a figure below a millionth.
LineEvalWide ==
  <<"e", "v", "a", "l", " ", "t", "i", "m", "e", " ", "=", "<U+00A0>", "1",
    " ", "m", "s", " ", "/", " ", "<U+0663>", " ", "r", "u", "n", "s", " ",
    "(", "<U+FF11>", " ", "m", "s", " ", "p", "e", "r", " ", "t", "o", "k",
    "e", "n", ",", " ", "0", ".", "0", "0", "0", "0", "0", "0", "1", " ",
    "t", "o", "k", "/", "s", ")">>

LogLines ==
  {LineLoad,
   LinePromptEval,
   LineEvalParenA,
   LineEvalParenB,
   LineEvalBare,
   LineEvalBareLong,
   LineEvalEmpty,
   LineEvalBadNum,
   LineLoadBadNum,
   LineEvalBadTps,
   LineEvalNoRuns,
   LineEvalFormFeed,
   LineEvalWide}

\* --------------------------------------------------- files and their values

\* A path that names no file.
NoFile == <<"<absent>">>

\* RESULTS_CSV before its first creation.
NoCsv == [exists |-> FALSE, lines |-> << >>]

\* csv.DictWriter.writeheader(): the row of the field names.
CsvHeader ==
  [kind |-> "header",
   cols |-> <<"Model", "PromptID", "Load_s", "Eval_s", "TPS">>]

\* The GGUF files the session works with: the converted model and its
\* quantisation.
ConvertedPath == "model-f16.gguf"
QuantisedPath == "model-q4.gguf"
ModelPaths == {ConvertedPath, QuantisedPath}

\* No path has been given.
NoPath == ""

\* No call has ended yet.
NoOutcome == [status |-> "none", exc |-> "none"]

\* Nothing printed under "--- Benchmark completed ---".
NoSummary ==
  [printed |-> FALSE, prompts |-> 0,
   avg_load |-> [sum |-> << >>, over |-> 0],
   avg_tps |-> [sum |-> << >>, over |-> 0]]

\* -------------------------------------------------------------- the state

VARIABLES
  \* -- the file system and the session
  prompt_file,    \* PROMPT_FILE: its text, or NoFile
  cli_exists,     \* LLAMA_CLI, the llama-cli binary, is on disk
  model_exists,   \* for each GGUF path: a file is there
  results_dir,    \* RESULTS_DIR, the directory of RESULTS_CSV, is there
  results_csv,    \* RESULTS_CSV: [exists, lines]
  runs,           \* calls of run_benchmark_menu and run_llama so far
  launches,       \* launches of llama-cli attempted so far
  \* -- one call of run_benchmark_menu / run_llama_benchmark / run_llama
  pc,             \* "menu", "loop" (between two prompts), "save", or
                  \* "prep" (waiting for a conversion or quantisation tool)
  entry,          \* the entry point of the current or last call
  model_name,     \* the label typed at the menu
  model_path,     \* the GGUF path typed at the menu or passed to the call
  ngl_layers,     \* the GPU layer count typed at the menu
  prompts,        \* the prompts read from the file
  prompt_id,      \* enumerate(prompts, start=1): the next ordinal
  results,        \* the rows collected so far
  launched,       \* the subprocesses this call ran: [cmd, returncode, stderr]
  warnings,       \* the [WARN] reports printed by this call
  outcome,        \* how the last call ended, with the exception if any
  summary,        \* the summary printed by the last call, or NoSummary
  \* -- the perplexity driver, one call per process at a time
  corpus,         \* WIKITEXT2_PATH: "absent", "partial" or "complete"
  downloads,      \* urlretrieve calls that ended well
  ppl_pc,         \* per process: "idle", "fetch" (check passed, file not
                  \* yet opened), "download" (transfer under way),
                  \* "clobbered" (the same, the file truncated by another
                  \* process meanwhile) or "run"
  ppl_calls,      \* per process: the calls of compute_ppl started
  ppl_output,     \* per process: stdout + stderr of its last subprocess
  ppl_result,     \* per process: how its last call ended, and its value
  \* -- the parser, call by call
  cli_stderr,     \* the text handed to parse_llama_output
  nlines,         \* the number of lines of cli_stderr
  metrics,        \* what the call returned
  ppc             \* "compose", then "returned" or "raised"

parseVars == <<cli_stderr, nlines, metrics, ppc>>

fsVars ==
  <<prompt_file, cli_exists, model_exists, results_dir, results_csv, runs,
    launches>>

callVars ==
  <<pc, entry, model_name, model_path, ngl_layers, prompts, prompt_id, results, launched,
    warnings, outcome, summary>>

benchVars == <<fsVars, callVars>>

pplVars ==
  <<corpus, downloads, ppl_pc, ppl_calls, ppl_output, ppl_result>>

\* ---------------------------------------------- the parser, call by call

\* The processes that may call compute_ppl at the same time.
Procs == {1, 2}

\* No subprocess output has been captured by the call.
NoOutput == <<"<none>">>

\* No call of compute_ppl has ended.
NoResult == [status |-> "none", exc |-> "none", value |-> Zero]

\* Nothing of the perplexity driver runs.
PplIdle ==
  /\ corpus = "absent"
  /\ downloads = 0
  /\ ppl_pc = [p \in Procs |-> "idle"]
  /\ ppl_calls = [p \in Procs |-> 0]
  /\ ppl_output = [p \in Procs |-> NoOutput]
  /\ ppl_result = [p \in Procs |-> NoResult]

\* Nothing of the benchmark driver runs: the state of a fresh session (the
\* model file apart, which the perplexity driver reads too).
BenchIdle ==
  /\ prompt_file = NoFile
  /\ cli_exists = TRUE
  /\ results_dir = TRUE
  /\ results_csv = NoCsv
  /\ runs = 0
  /\ launches = 0
  /\ pc = "menu"
  /\ entry = "none"
  /\ model_name = ""
  /\ model_path = NoPath
  /\ ngl_layers = 0
  /\ prompts = << >>
  /\ prompt_id = 1
  /\ results = << >>
  /\ launched = << >>
  /\ warnings = << >>
  /\ outcome = NoOutcome
  /\ summary = NoSummary

\* No text has been captured and nothing parsed.
ParseIdle ==
  /\ cli_stderr = << >>
  /\ nlines = 0
  /\ metrics = DefaultMetrics
  /\ ppc = "compose"

InitParse ==
  /\ BenchIdle
  /\ model_exists = [f \in ModelPaths |-> TRUE]
  /\ PplIdle
  /\ ParseIdle

\* The external tool prints one more line.
EmitLine ==
  /\ ppc = "compose"
  /\ nlines < MaxTextLines
  /\ \E l \in LogLines : cli_stderr' = cli_stderr \o l \o <<"\n">>
  /\ nlines' = nlines + 1
  /\ UNCHANGED <<metrics, ppc>>
  /\ UNCHANGED <<benchVars, pplVars>>

\* One call of parse_llama_output on the captured text.
CallParse ==
  /\ ppc = "compose"
  /\ metrics' = parse_llama_output(cli_stderr)
  /\ ppc' = IF metrics'.exc = "none" THEN "returned" ELSE "raised"
  /\ UNCHANGED <<cli_stderr, nlines>>
  /\ UNCHANGED <<benchVars, pplVars>>

\* ------------------------------------------------- the benchmark driver

\* What a prompt file is written from, each followed by "\n": a
\* whitespace-only line, a prompt, and two prompts inside whitespace (a form
\* feed too) with an empty line between them, these lines ended by lone
\* carriage returns and the last by "\r\n".
PromptLineSet ==
  {<<" ", "\t">>, <<"a">>, <<"\t", "b", "\f", "\r", "\r", "c", " ", "\r">>}

RECURSIVE JoinLines(_)
JoinLines(ls) ==
  IF ls = << >> THEN << >>
  ELSE ls[1] \o <<"\n">> \o JoinLines(Tail(ls))

\* The prompt files of up to MaxPromptLines lines.
PromptFiles ==
  {JoinLines(ls) :
     ls \in UNION {[1..n -> PromptLineSet] : n \in 0..MaxPromptLines}}

\* f.readlines() of a file opened in text mode (universal newlines): a line
\* ends at "\n", "\r" or "\r\n", and is returned with "\n" for its end; a
\* last line without an end is returned as it is.
RECURSIVE ReadLines(_)
ReadLines(s) ==
  IF s = << >> THEN << >>
  ELSE LET brks == {i \in 1..Len(s) : s[i] \in {"\n", "\r"}}
       IN IF brks = {} THEN <<s>>
          ELSE LET i == CHOOSE x \in brks : \A y \in brks : x <= y
                   n == IF s[i] = "\r" /\ i < Len(s) /\ s[i + 1] = "\n"
                        THEN 2 ELSE 1
               IN <<SubSeq(s, 1, i - 1) \o <<"\n">>>>
                    \o ReadLines(SubSeq(s, i + n, Len(s)))

\* The comprehension with the test "if line" for "if line.strip()".
ReadPrompts_KeepBlank(file) ==
  LET ls == ReadLines(file)
  IN [k \in 1..Len(ls) |-> Strip(ls[k])]

\* [line.strip() for line in f.readlines() if line.strip()]
ReadPrompts(file) ==
  LET ls == ReadLines(file)
      stripped == [k \in 1..Len(ls) |-> Strip(ls[k])]
  IN SelectSeq(stripped, LAMBDA x : x # << >>)

\* The command line of run_llama_benchmark (lines 100-113); -ngl only for a
\* positive count.
BenchCommand(path, prompt_text, ngl) ==
  [exe |-> "llama-cli", m |-> path, p |-> prompt_text, n |-> 100,
   c |-> 2048, temp |-> "0.7",
   flags |-> <<"--ignore-eos", "--no-warmup", "-no-cnv">>,
   ngl |-> IF ngl > 0 THEN <<"-ngl", ngl>> ELSE << >>]

\* The command line of run_llama (lines 32-41 of inference.py).
RawCommand(path, prompt_text, ngl) ==
  [exe |-> "llama-cli", m |-> path, p |-> prompt_text, n |-> 128,
   t |-> -1,
   ngl |-> IF ngl > 0 THEN <<"-ngl", ngl>> ELSE << >>]

\* What llama-cli may print on stderr.
OutGood == LineLoad \o <<"\n">> \o LineEvalParenA \o <<"\n">>
OutNothing == <<"e", "r", "r", "o", "r", "\n">>
OutTokensOnly == LineEvalBare \o <<"\n">>
OutTpsOnly == LineEvalNoRuns \o <<"\n">>
OutBadNumber == LineEvalBadNum \o <<"\n">>

CliOutputs == {OutGood, OutNothing, OutTokensOnly, OutTpsOnly, OutBadNumber}

\* The exit statuses of the external process.
ExitCodes == {0, 1}

\* What the external process does, as [returncode, stderr]: it exits 0 with
\* any of the texts, or fails printing no metrics; without its model file it
\* can only fail.
CliRuns(mex) ==
  {[returncode |-> 1, stderr |-> OutNothing]}
    \cup (IF mex
          THEN {[returncode |-> 0, stderr |-> t] : t \in CliOutputs}
          ELSE {})

\* parse_llama_output on each of these texts, computed once.
ParsedCliOutput == [t \in CliOutputs |-> parse_llama_output(t)]

\* What is typed at the menu: the label, the path of the GGUF model and the
\* GPU layer count.
MenuInputs ==
  {[name |-> "q4", path |-> QuantisedPath, ngl |-> 0],
   [name |-> "f16", path |-> ConvertedPath, ngl |-> 2]}

\* The dictionary appended at lines 131-137.
Row(name, id, m) ==
  [kind |-> "row", Model |-> name, PromptID |-> id,
   Load_s |-> m.load_s, Eval_s |-> m.eval_s, TPS |-> m.tps]

\* The safeguard with "or" for "and".
ZeroMetrics_Either(m) == m.tps = Zero \/ m.tokens = Zero

\* The debug safeguard of line 127.
ZeroMetrics(m) == m.tps = Zero /\ m.tokens = Zero

\* sum(r[field] for r in rows): the addends, in the order they are added.
SumOf(rows, field) == [k \in 1..Len(rows) |-> rows[k][field]]

\* Lines 135-143 of main.py: the averages, each the quotient of a sum by
\* len(results).
Summarize(rows) ==
  [printed |-> TRUE, prompts |-> Len(rows),
   avg_load |-> [sum |-> SumOf(rows, "Load_s"), over |-> Len(rows)],
   avg_tps |-> [sum |-> SumOf(rows, "TPS"), over |-> Len(rows)]]

\* Lines 120-132 of main.py with the header written on every run.
AppendCsv_AlwaysHeader(csv, rows) ==
  [exists |-> TRUE, lines |-> csv.lines \o <<CsvHeader>> \o rows]

\* Lines 120-132 of main.py: the header when the file did not exist, then
\* the rows, after what the file already holds (mode "a").
AppendCsv(csv, rows) ==
  [exists |-> TRUE,
   lines |-> csv.lines
               \o (IF csv.exists THEN << >> ELSE <<CsvHeader>>)
               \o rows]

\* A call starts: what the previous one left is cleared.
BeginCall(e, name, path, ngl) ==
  /\ entry' = e
  /\ model_name' = name
  /\ model_path' = path
  /\ ngl_layers' = ngl
  /\ runs' = runs + 1
  /\ summary' = NoSummary

\* An exception leaves the call: run_benchmark_menu prints "[ERROR] ..." and
\* returns to the menu (lines 115-117); a direct call propagates it.
Fail(exc) ==
  /\ outcome' = [status |-> "failed", exc |-> exc]
  /\ pc' = "menu"

\* Menu option 2 with an invalid GPU layer count (lines 99-103 of main.py).
InvalidNgl ==
  /\ pc = "menu"
  /\ runs < MaxRuns
  /\ BeginCall("run_benchmark_menu", "", NoPath, 0)
  /\ outcome' = [status |-> "invalid", exc |-> "ValueError"]
  /\ prompts' = << >> /\ prompt_id' = 1 /\ results' = << >>
  /\ launched' = << >> /\ warnings' = << >>
  /\ UNCHANGED <<pc, prompt_file, cli_exists, model_exists, results_dir,
                 results_csv, launches>>
  /\ UNCHANGED <<parseVars, pplVars>>

\* Menu option 2: run_benchmark_menu up to the first subprocess, that is
\* lines 93-114 of main.py and lines 91-97 of run_llama_benchmark.
StartBenchmark ==
  /\ pc = "menu"
  /\ runs < MaxRuns
  /\ \E in \in MenuInputs :
       BeginCall("run_benchmark_menu", in.name, in.path, in.ngl)
  /\ results' = << >> /\ launched' = << >> /\ warnings' = << >>
  /\ prompt_id' = 1
  /\ IF prompt_file = NoFile
     THEN /\ prompts' = << >>
          /\ Fail("FileNotFoundError")
     ELSE /\ launches + Len(ReadPrompts(prompt_file)) <= MaxLaunches
          /\ prompts' = ReadPrompts(prompt_file)
          /\ IF prompts' = << >>
             THEN Fail("ValueError")
             ELSE /\ pc' = "loop"
                  /\ outcome' = [status |-> "running", exc |-> "none"]
  /\ UNCHANGED <<prompt_file, cli_exists, model_exists, results_dir,
                 results_csv, launches>>
  /\ UNCHANGED <<parseVars, pplVars>>

\* One iteration of the loop of run_llama_benchmark (lines 99-137): the
\* subprocess is run to its end, its stderr parsed, the row appended.  After
\* the last prompt the rows are returned (line 139).
LaunchPrompt ==
  /\ pc = "loop"
  /\ launches' = launches + 1
  /\ LET cmd == BenchCommand(model_path, prompts[prompt_id], ngl_layers)
     IN \/ \* subprocess.run raises: always when the binary is missing
           /\ Fail(IF cli_exists THEN "OSError" ELSE "FileNotFoundError")
           /\ UNCHANGED <<prompt_id, results, launched, warnings>>
        \/ \* the process runs and exits with some status and some text
           /\ cli_exists
           /\ \E run \in CliRuns(model_exists[model_path]) :
                LET text == run.stderr
                    m == ParsedCliOutput[text]
                IN /\ launched' =
                        Append(launched,
                               [cmd |-> cmd, returncode |-> run.returncode,
                                stderr |-> text])
                   /\ IF m.exc # "none"
                      THEN /\ Fail(m.exc)
                           /\ UNCHANGED <<prompt_id, results, warnings>>
                      ELSE /\ warnings' =
                                IF ZeroMetrics(m)
                                THEN Append(warnings,
                                       [prompt_id |-> prompt_id, raw |-> text])
                                ELSE warnings
                           /\ results' =
                                Append(results, Row(model_name, prompt_id, m))
                           /\ prompt_id' = prompt_id + 1
                           /\ pc' = IF prompt_id = Len(prompts)
                                    THEN "save" ELSE "loop"
                           /\ UNCHANGED outcome
  /\ UNCHANGED <<prompt_file, cli_exists, model_exists, results_dir,
                 results_csv, runs>>
  /\ UNCHANGED <<entry, model_name, model_path, ngl_layers, prompts,
                 summary>>
  /\ UNCHANGED <<parseVars, pplVars>>

\* The rows written from inside the loop, as soon as any are collected.
SaveResults_Early ==
  /\ pc \in {"save", "loop"}
  /\ results # << >>
  /\ results_csv' = AppendCsv(results_csv, results)
  /\ summary' = Summarize(results)
  /\ outcome' = [status |-> "completed", exc |-> "none"]
  /\ pc' = IF pc = "save" THEN "menu" ELSE "loop"
  /\ UNCHANGED <<prompt_file, cli_exists, model_exists, results_dir, runs,
                 launches>>
  /\ UNCHANGED <<entry, model_name, model_path, ngl_layers, prompts,
                 prompt_id, results, launched, warnings>>
  /\ UNCHANGED <<parseVars, pplVars>>

\* run_benchmark_menu after run_llama_benchmark returned (lines 119-143 of
\* main.py): the rows are appended to the CSV and the summary is printed.
\* open() is outside the try of lines 107-117 and nothing creates the
\* directory of the file: without it the FileNotFoundError of open() leaves
\* run_benchmark_menu, and main() with it.
SaveResults ==
  /\ pc = "save"
  /\ pc' = "menu"
  /\ IF results_dir
     THEN /\ results_csv' = AppendCsv(results_csv, results)
          /\ summary' = Summarize(results)
          /\ outcome' = [status |-> "completed", exc |-> "none"]
     ELSE /\ outcome' = [status |-> "escaped", exc |-> "FileNotFoundError"]
          /\ UNCHANGED <<results_csv, summary>>
  /\ UNCHANGED <<prompt_file, cli_exists, model_exists, results_dir, runs,
                 launches>>
  /\ UNCHANGED <<entry, model_name, model_path, ngl_layers, prompts,
                 prompt_id, results, launched, warnings>>
  /\ UNCHANGED <<parseVars, pplVars>>

\* One call of inference.run_llama (lines 29-51), to its return or raise.
CallRunLlama ==
  /\ pc = "menu"
  /\ runs < MaxRuns
  /\ launches < MaxLaunches
  /\ \E in \in MenuInputs, p \in {<<"a">>} :
       /\ BeginCall("run_llama", "", in.path, in.ngl)
       /\ prompts' = <<p>> /\ prompt_id' = 1
       /\ results' = << >> /\ warnings' = << >>
       /\ pc' = "menu"
       /\ IF ~model_exists[in.path]
          THEN /\ outcome' = [status |-> "failed", exc |-> "FileNotFoundError"]
               /\ launched' = << >>
               /\ UNCHANGED launches
          ELSE /\ launches' = launches + 1
               /\ \/ /\ outcome' =
                          [status |-> "failed",
                           exc |-> IF cli_exists THEN "OSError"
                                   ELSE "FileNotFoundError"]
                     /\ launched' = << >>
                  \/ /\ cli_exists
                     /\ \E run \in CliRuns(model_exists[in.path]) :
                          launched' =
                            <<[cmd |-> RawCommand(in.path, p, in.ngl),
                               returncode |-> run.returncode,
                               stderr |-> run.stderr]>>
                     /\ outcome' = [status |-> "returned", exc |-> "none"]
  /\ UNCHANGED <<prompt_file, cli_exists, model_exists, results_dir,
                 results_csv>>
  /\ UNCHANGED <<parseVars, pplVars>>

\* ------------------------------------------------- model preparation

\* The command lines of hf_utils (lines 78-86 and 113-118).
ConvertCommand(output_path) ==
  [exe |-> "python", script |-> "convert_hf_to_gguf.py",
   model_dir |-> "hf-model", outfile |-> output_path, outtype |-> "f16"]

QuantiseCommand(gguf_path, output_path) ==
  [exe |-> "llama-quantize", gguf |-> gguf_path, out |-> output_path,
   quant_type |-> "Q4_K_M"]

\* The return code of a subprocess that has not exited.
StillRunning == "running"

\* A call of hf_utils.convert_to_gguf or quantise_gguf up to the point where
\* it waits for its subprocess: FileNotFoundError when the tool is not in
\* the llama.cpp directory given; then subprocess.run starts the tool, or
\* raises when it cannot.
PrepStart(e, cmd, path, tool_exists) ==
  /\ pc = "menu"
  /\ entry' = e
  /\ model_path' = path
  /\ model_name' = "" /\ ngl_layers' = 0 /\ summary' = NoSummary
  /\ prompts' = << >> /\ prompt_id' = 1 /\ results' = << >>
  /\ warnings' = << >>
  /\ IF ~tool_exists
     THEN /\ Fail("FileNotFoundError")
          /\ launched' = << >>
     ELSE \/ /\ Fail("OSError")
             /\ launched' = << >>
          \/ /\ pc' = "prep"
             /\ outcome' = [status |-> "running", exc |-> "none"]
             /\ launched' =
                  <<[cmd |-> cmd, returncode |-> StillRunning,
                     stderr |-> NoOutput]>>
  /\ UNCHANGED <<fsVars, parseVars, pplVars>>

\* hf_utils.convert_to_gguf up to its subprocess (lines 61-88).
ConvertToGguf ==
  \E output_path \in {ConvertedPath}, script_exists \in BOOLEAN :
    PrepStart("convert_to_gguf", ConvertCommand(output_path), output_path,
              script_exists)

\* hf_utils.quantise_gguf up to its subprocess (lines 96-120).
QuantiseGguf ==
  \E gguf_path \in {ConvertedPath}, output_path \in {QuantisedPath},
     quantise_bin_exists \in BOOLEAN :
    PrepStart("quantise_gguf", QuantiseCommand(gguf_path, output_path),
              output_path, quantise_bin_exists)

\* The tool a preparation call waits for writes its output file; the
\* quantiser only when it has its input to read.
PrepToolWrites ==
  /\ pc = "prep"
  /\ ~model_exists[model_path]
  /\ entry = "quantise_gguf" => model_exists[launched[1].cmd.gguf]
  /\ model_exists' = [model_exists EXCEPT ![model_path] = TRUE]
  /\ UNCHANGED <<prompt_file, cli_exists, results_dir, results_csv, runs,
                 launches>>
  /\ UNCHANGED <<callVars, parseVars, pplVars>>

\* The tool exits and subprocess.run(check=True) returns, or raises
\* CalledProcessError on a status other than 0 (lines 88-89 and 120-121);
\* the tool exits with 0 only when its output file is written.
PrepReturns ==
  /\ pc = "prep"
  /\ pc' = "menu"
  /\ \E rc \in ExitCodes :
       /\ rc = 0 => model_exists[model_path]
       /\ launched' = <<[launched[1] EXCEPT !.returncode = rc]>>
       /\ outcome' = IF rc = 0
                     THEN [status |-> "returned", exc |-> "none"]
                     ELSE [status |-> "failed", exc |-> "CalledProcessError"]
  /\ UNCHANGED <<entry, model_name, model_path, ngl_layers, prompts,
                 prompt_id, results, warnings, summary>>
  /\ UNCHANGED <<fsVars, parseVars, pplVars>>

\* The llama-cli binary, which was there when config.py was imported
\* (lines 47-54), is removed or renamed.
LlamaCliRemoved ==
  /\ cli_exists
  /\ cli_exists' = FALSE
  /\ UNCHANGED <<prompt_file, model_exists, results_dir, results_csv, runs,
                 launches>>
  /\ UNCHANGED <<callVars, parseVars, pplVars>>

\* ------------------------------------------------ the perplexity driver

LitPerplexity == <<"p", "e", "r", "p", "l", "e", "x", "i", "t", "y">>

\* perplexity\s*=\s*([\d\.]+) matched at position i.
PplAt(s, i) ==
  LET a == SkipClass(s, i + Len(LitPerplexity), Ws)
      b == SkipClass(s, a + 1, Ws)
      c == SkipClass(s, b, DigDot)
  IN IF /\ HasAt(s, i, LitPerplexity)
        /\ HasAt(s, a, <<"=">>)
        /\ c > b
     THEN SubSeq(s, b, c - 1)
     ELSE NoMatch

\* re.search(r"perplexity\s*=\s*([\d\.]+)", output).group(1)
SearchPpl(s) ==
  LET hits == {i \in 1..Len(s) : PplAt(s, i) # NoMatch}
  IN IF hits = {} THEN NoMatch
     ELSE PplAt(s, CHOOSE i \in hits : \A j \in hits : i <= j)

\* Lines 120-126 of ppl.py: the value, RuntimeError without a match, and the
\* ValueError of float() on a malformed number.
ExtractPpl(output) ==
  LET g == SearchPpl(output)
  IN IF g = NoMatch
     THEN [status |-> "failed", exc |-> "RuntimeError", value |-> Zero]
     ELSE IF ~FloatOk(g)
          THEN [status |-> "failed", exc |-> "ValueError", value |-> Zero]
          ELSE [status |-> "returned", exc |-> "none", value |-> FloatVal(g)]

\* WIKITEXT2_PATH.exists() reporting the file missing whatever is on disk.
CorpusExists_Never(c) == FALSE

\* WIKITEXT2_PATH.exists() (line 43).
CorpusExists(c) == c # "absent"

\* Lines of llama-perplexity's output.
PplLineValue ==
  <<"p", "e", "r", "p", "l", "e", "x", "i", "t", "y", " ", "=", " ", "1",
    "5", ".", "2", "6", "7", "1">>

PplLineEstimate ==
  <<"F", "i", "n", "a", "l", " ", "e", "s", "t", "i", "m", "a", "t", "e",
    ":", " ", "P", "P", "L", " ", "=", " ", "5", ".", "9">>

PplLineHead ==
  <<"p", "e", "r", "p", "l", "e", "x", "i", "t", "y", " ", "=">>

PplLineTail ==
  <<" ", "7", ".", "5", "\n">>

PplLineBad ==
  <<"p", "e", "r", "p", "l", "e", "x", "i", "t", "y", " ", "=", " ", "1",
    ".", "2", ".", "3">>

PplLineOther ==
  <<"p", "e", "r", "p", "l", "e", "x", "i", "t", "y", " ", "=", " ", "8",
    ".", "2", "5">>

\* What llama-perplexity may print, as [stdout, stderr].
PplRuns ==
  {[stdout |-> << >>, stderr |-> PplLineValue \o <<"\n">>],
   [stdout |-> PplLineEstimate \o <<"\n">>, stderr |-> << >>],
   [stdout |-> PplLineHead, stderr |-> PplLineTail],
   [stdout |-> PplLineBad \o <<"\n">>, stderr |-> PplLineValue \o <<"\n">>],
   [stdout |-> PplLineOther \o <<"\n">>, stderr |-> PplLineValue \o <<"\n">>],
   [stdout |-> << >>, stderr |-> << >>]}

\* The value of a call that raised.
PplFailed(exc) == [status |-> "failed", exc |-> exc, value |-> Zero]

\* compute_ppl from its first line to the existence check of
\* ensure_wikitext2_corpus (lines 87-95 and 43-44 of ppl.py), on a model
\* path and on a path of the binary that names a file or does not.
PplStart(p) ==
  /\ ppl_pc[p] = "idle"
  /\ ppl_calls[p] < MaxPplCalls
  /\ ppl_calls' = [ppl_calls EXCEPT ![p] = @ + 1]
  /\ ppl_output' = [ppl_output EXCEPT ![p] = NoOutput]
  /\ \E path \in ModelPaths, bin_exists \in BOOLEAN :
       IF ~model_exists[path] \/ ~bin_exists
       THEN /\ ppl_result' =
                 [ppl_result EXCEPT ![p] = PplFailed("FileNotFoundError")]
            /\ UNCHANGED ppl_pc
       ELSE /\ ppl_result' = [ppl_result EXCEPT ![p] = NoResult]
            /\ ppl_pc' = [ppl_pc EXCEPT
                            ![p] = IF CorpusExists(corpus) THEN "run"
                                   ELSE "fetch"]
  /\ UNCHANGED <<corpus, downloads>>
  /\ UNCHANGED <<parseVars, fsVars, callVars>>

\* ensure_wikitext2_corpus after the check (lines 46-51): mkdir, then
\* urlretrieve up to the point where it has opened the target for writing.
\* mkdir is outside the try, and its OSError leaves compute_ppl as it is; the
\* request may fail before the file is opened, which is not touched then and
\* RuntimeError is raised; once opened the file exists, empty, whatever it
\* held, and a transfer that another process has under way goes on into the
\* truncated file.
PplFetchOpen(p) ==
  /\ ppl_pc[p] = "fetch"
  /\ \/ /\ corpus' = "partial"
        /\ ppl_pc' =
             [q \in Procs |->
                IF q = p THEN "download"
                ELSE IF ppl_pc[q] = "download" THEN "clobbered"
                ELSE ppl_pc[q]]
        /\ UNCHANGED ppl_result
     \/ /\ \E exc \in {"OSError", "RuntimeError"} :
             ppl_result' = [ppl_result EXCEPT ![p] = PplFailed(exc)]
        /\ ppl_pc' = [ppl_pc EXCEPT ![p] = "idle"]
        /\ UNCHANGED corpus
  /\ UNCHANGED <<downloads, ppl_calls, ppl_output>>
  /\ UNCHANGED <<parseVars, fsVars, callVars>>

\* The transfer of urlretrieve ends (lines 51-58).  When it ends well the
\* file is whole, unless another process truncated it meanwhile: then it is
\* whole only if the blocks written since make it so.  When it fails,
\* RuntimeError is raised and the file stays as it is.
PplFetchEnd(p) ==
  /\ ppl_pc[p] \in {"download", "clobbered"}
  /\ \/ /\ corpus' \in (IF ppl_pc[p] = "download" \/ corpus = "complete"
                        THEN {"complete"} ELSE {"partial", "complete"})
        /\ downloads' = downloads + 1
        /\ ppl_pc' = [ppl_pc EXCEPT ![p] = "run"]
        /\ UNCHANGED ppl_result
     \/ /\ ppl_result' = [ppl_result EXCEPT ![p] = PplFailed("RuntimeError")]
        /\ ppl_pc' = [ppl_pc EXCEPT ![p] = "idle"]
        /\ UNCHANGED <<corpus, downloads>>
  /\ UNCHANGED <<ppl_calls, ppl_output>>
  /\ UNCHANGED <<parseVars, fsVars, callVars>>

\* compute_ppl from the subprocess to its end (lines 97-126).
PplRun(p) ==
  /\ ppl_pc[p] = "run"
  /\ ppl_pc' = [ppl_pc EXCEPT ![p] = "idle"]
  /\ \/ \* subprocess.run raises
        /\ ppl_result' =
             [ppl_result EXCEPT ![p] = PplFailed("OSError")]
        /\ UNCHANGED ppl_output
     \/ \E run \in PplRuns :
          LET output == run.stdout \o run.stderr
          IN /\ ppl_output' = [ppl_output EXCEPT ![p] = output]
             /\ ppl_result' = [ppl_result EXCEPT ![p] = ExtractPpl(output)]
  /\ UNCHANGED <<corpus, downloads, ppl_calls>>
  /\ UNCHANGED <<parseVars, fsVars, callVars>>

\* The perplexity driver's files: each model there or not, the corpus not
\* yet fetched or already on disk.
InitPpl ==
  /\ BenchIdle
  /\ ParseIdle
  /\ model_exists \in [ModelPaths -> BOOLEAN]
  /\ corpus \in {"absent", "complete"}
  /\ downloads = 0
  /\ ppl_pc = [p \in Procs |-> "idle"]
  /\ ppl_calls = [p \in Procs |-> 0]
  /\ ppl_output = [p \in Procs |-> NoOutput]
  /\ ppl_result = [p \in Procs |-> NoResult]

\* A session after the import of config.py, which found the llama.cpp
\* components (lines 41-54): some prompt file, each model there or not, the
\* results directory there or not, no results yet.
Init ==
  /\ prompt_file \in PromptFiles \cup {NoFile}
  /\ cli_exists = TRUE
  /\ model_exists \in [ModelPaths -> BOOLEAN]
  /\ results_dir \in BOOLEAN
  /\ results_csv = NoCsv
  /\ runs = 0
  /\ launches = 0
  /\ pc = "menu"
  /\ entry = "none"
  /\ model_name = ""
  /\ model_path = NoPath
  /\ ngl_layers = 0
  /\ prompts = << >>
  /\ prompt_id = 1
  /\ results = << >>
  /\ launched = << >>
  /\ warnings = << >>
  /\ outcome = NoOutcome
  /\ summary = NoSummary
  /\ PplIdle
  /\ ParseIdle

\* ------------------------------------------------------ the specifications

vars == <<parseVars, benchVars, pplVars>>

Next ==
  \/ InvalidNgl
  \/ StartBenchmark
  \/ LaunchPrompt
  \/ SaveResults
  \/ CallRunLlama
  \/ ConvertToGguf
  \/ QuantiseGguf
  \/ PrepToolWrites
  \/ PrepReturns
  \/ LlamaCliRemoved

Spec == Init /\ [][Next]_vars

NextParse == EmitLine \/ CallParse

SpecParse == InitParse /\ [][NextParse]_vars

NextPpl ==
  \/ \E p \in Procs :
       PplStart(p) \/ PplFetchOpen(p) \/ PplFetchEnd(p) \/ PplRun(p)
  \/ ConvertToGguf
  \/ QuantiseGguf
  \/ PrepToolWrites
  \/ PrepReturns

SpecPpl == InitPpl /\ [][NextPpl]_vars

\* ----------------------------------------- properties of the parser (C4-C6)

\* The lines of the text that hold "eval time" and do not hold "prompt eval".
GenLines(text) ==
  {k \in 1..Len(SplitLines(text)) :
     /\ Contains(SplitLines(text)[k], LitEvalTime)
     /\ ~Contains(SplitLines(text)[k], LitPromptEval)}

\* The first of them in text order (NoLine when there is none).
SelectedLine(text) ==
  IF GenLines(text) = {} THEN NoLine
  ELSE SplitLines(text)[CHOOSE k \in GenLines(text) :
                          \A j \in GenLines(text) : k <= j]

\* C4: whenever parse_llama_output returns, its generation metrics (eval time,
\* tokens/sec, token count) are those read from the first line, in text
\* order, that holds "eval time" and not "prompt eval", taken alone; every
\* other line (a "prompt eval" line, a later matching line) contributes
\* nothing, also when the first matching line yields no value for a field.
C4_FirstGenLineOnly ==
  ppc = "returned" =>
    LET alone == parse_llama_output(SelectedLine(cli_stderr))
    IN /\ alone.exc = "none"
       /\ metrics.eval_s = alone.eval_s
       /\ metrics.tps = alone.tps
       /\ metrics.tokens = alone.tokens

\* C4 witness: a "prompt eval" line with values comes first, the first
\* generation line yields no value, a later generation line has values, and
\* the returned generation metrics are all at their defaults.
C4_Witness ==
  /\ ppc = "returned"
  /\ cli_stderr =
       LinePromptEval \o <<"\n">> \o LineEvalEmpty \o <<"\n">>
         \o LineEvalParenA \o <<"\n">>
  /\ metrics.eval_s = Zero /\ metrics.tps = Zero
  /\ metrics.tokens = Zero

\* C5 (as claimed): parse_llama_output never raises, whatever the text.
C5_NeverRaises == ppc # "raised"

\* "N tok/s" or "N tokens per second" at position i: ([\d\.]+)\s*(tok/s|...).
BareTpsAt(s, i) ==
  LET e == SkipClass(s, i, DigDot)
      f == SkipClass(s, e, Ws)
  IN IF /\ i <= Len(s)
        /\ e > i
        /\ (i = 1 \/ s[i - 1] \notin DigDot)
        /\ (HasAt(s, f, LitTokS) \/ HasAt(s, f, LitTokensPerSecond))
     THEN SubSeq(s, i, e - 1)
     ELSE NoMatch

\* The first tokens-per-second figure of a line, in either surface form.
StatedTps(s) ==
  LET hits == {i \in 1..Len(s) : BareTpsAt(s, i) # NoMatch}
  IN IF hits = {} THEN NoMatch
     ELSE BareTpsAt(s, CHOOSE i \in hits : \A j \in hits : i <= j)

\* C6 (as claimed): when the selected line states a well-formed figure N as
\* "N tok/s" or "N tokens per second", bare or inside the parenthetical
\* "(X ms per token, N ...)", the returned tps field equals N.
C6_BothSurfaceForms ==
  LET n == StatedTps(SelectedLine(cli_stderr))
  IN (ppc = "returned" /\ n # NoMatch /\ FloatOk(n)) => metrics.tps = FloatVal(n)

\* ------------------------------- properties of the benchmark driver (C1-C3)

\* The lines of a text file: what stands between two successive line ends
\* ("\n", "\r\n" or a lone "\r"), before the first and, unless empty, after
\* the last.
FileLines(file) ==
  LET ends == {i \in 1..Len(file) :
                 \/ file[i] = "\n"
                 \/ file[i] = "\r" /\ ~HasAt(file, i, <<"\r", "\n">>)}
      from(e) == IF \E d \in ends : d < e
                 THEN 1 + CHOOSE d \in ends :
                            d < e /\ \A c \in ends : c < e => c <= d
                 ELSE 1
      stops == ends \cup (IF from(Len(file) + 1) <= Len(file)
                          THEN {Len(file) + 1} ELSE {})
      nth(k) == CHOOSE e \in stops : Cardinality({d \in stops : d < e}) = k - 1
  IN [k \in 1..Cardinality(stops) |->
        LET e == nth(k)
            last == IF e <= Len(file) /\ e > 1 /\ file[e] = "\n"
                       /\ file[e - 1] = "\r"
                    THEN e - 2 ELSE e - 1
        IN SubSeq(file, from(e), last)]

\* The lines of a prompt file that hold a character other than whitespace,
\* in file order.
NonBlankLines(file) ==
  SelectSeq(FileLines(file),
            LAMBDA l : \E i \in 1..Len(l) : l[i] \notin Ws)

\* A call of run_benchmark_menu on a readable prompt file has ended.
BenchmarkEnded ==
  /\ entry = "run_benchmark_menu"
  /\ pc = "menu"
  /\ outcome.status \in {"completed", "escaped", "failed"}
  /\ prompt_file # NoFile

\* C1 (as claimed): when the prompt file has a non-blank line and no
\* subprocess launch raised, run_llama_benchmark returned one row per
\* non-blank line, in file order, the k-th row with PromptID = k and made
\* from the subprocess that was given the k-th non-blank line (stripped) as
\* its prompt.
C1_OneRowPerPrompt ==
  (/\ BenchmarkEnded
   /\ NonBlankLines(prompt_file) # << >>
   /\ outcome.exc \notin {"OSError", "FileNotFoundError"})
  => LET lines == NonBlankLines(prompt_file)
     IN /\ outcome.status \in {"completed", "escaped"}
        /\ Len(results) = Len(lines)
        /\ Len(launched) = Len(lines)
        /\ \A k \in 1..Len(lines) :
             /\ results[k].PromptID = k
             /\ launched[k].cmd.p = Strip(lines[k])
             /\ results[k] =
                  Row(model_name, k, parse_llama_output(launched[k].stderr))

\* C2: a call of run_benchmark_menu on a prompt file without a non-blank
\* line fails with ValueError in the step that reads the file: no subprocess
\* is launched, the result table is left as it was and no summary is printed;
\* and the loop never runs on an empty prompt list.
C2_EmptyPromptFileFails ==
  /\ [][(/\ runs' = runs + 1
         /\ entry' = "run_benchmark_menu"
         /\ outcome'.status # "invalid"
         /\ prompt_file # NoFile
         /\ NonBlankLines(prompt_file) = << >>)
        => (/\ outcome' = [status |-> "failed", exc |-> "ValueError"]
            /\ pc' = "menu"
            /\ launches' = launches
            /\ launched' = << >>
            /\ results_csv' = results_csv
            /\ ~summary'.printed)]_vars
  /\ [](pc \in {"loop", "save"} => NonBlankLines(prompt_file) # << >>)

\* C2 witness: the prompt file holds only whitespace-only lines, the call
\* failed with ValueError and launched nothing.
C2_Witness ==
  /\ BenchmarkEnded
  /\ prompt_file = <<" ", "\t", "\n", " ", "\t", "\n">>
  /\ outcome = [status |-> "failed", exc |-> "ValueError"]
  /\ launched = << >>
  /\ launches = 0
  /\ results_csv = NoCsv

\* C3: for every prompt whose output was parsed, the [WARN] report (with the
\* raw captured text) was printed exactly when tokens/sec and token count are
\* both zero, and its row was appended either way; the summary divides by the
\* number of non-blank prompts.
C3_ZeroRowWarnedAndKept ==
  /\ entry = "run_benchmark_menu" =>
       /\ \A k \in 1..Len(results) :
            LET m == ParsedCliOutput[launched[k].stderr]
            IN /\ results[k] = Row(model_name, k, m)
               /\ (m.tps = Zero /\ m.tokens = Zero)
                    <=> (\E i \in 1..Len(warnings) :
                           warnings[i] =
                             [prompt_id |-> k, raw |-> launched[k].stderr])
       /\ \A i \in 1..Len(warnings) : warnings[i].prompt_id <= Len(results)
  /\ summary.printed =>
       /\ summary.prompts = Len(NonBlankLines(prompt_file))
       /\ summary.prompts = Len(results)
       /\ summary.avg_tps.over = Len(NonBlankLines(prompt_file))
       /\ summary.avg_load.over = Len(NonBlankLines(prompt_file))
       /\ summary.avg_tps.sum = SumOf(results, "TPS")
       /\ summary.avg_load.sum = SumOf(results, "Load_s")

\* C3 witness: a completed two-prompt run whose first prompt gave all-zero
\* metrics (warned, row kept) and whose second gave a zero tokens/sec with a
\* non-zero token count (not warned); the summary counts both.
C3_Witness ==
  /\ BenchmarkEnded
  /\ outcome.status = "completed"
  /\ Len(results) = 2
  /\ launched[1].stderr = OutNothing
  /\ launched[2].stderr = OutTokensOnly
  /\ results[1].TPS = Zero /\ results[2].TPS = Zero
  /\ Len(warnings) = 1 /\ warnings[1].prompt_id = 1
  /\ summary.printed /\ summary.prompts = 2

\* -------------------------------------- failure handling of the drivers

\* C8 (as claimed): a subprocess that exits with a non-zero status gets no
\* row, and the call that ran it is not reported as completed.
C8_FailurePropagates ==
  entry = "run_benchmark_menu" =>
    \A k \in 1..Len(launched) :
      launched[k].returncode # 0 =>
        /\ Len(results) < k
        /\ outcome.status # "completed"

\* C9 (as claimed): no driver entry point runs a subprocess, or returns,
\* on a model path that names no file: a step of run_benchmark_menu or
\* run_llama that runs one more subprocess, or that ends the call without
\* an exception, is taken with the model file of the call on disk.
C9_ConfigCheckedFirst ==
  [][(/\ entry' \in {"run_benchmark_menu", "run_llama"}
      /\ \/ Len(launched') > Len(launched)
         \/ /\ outcome' # outcome
            /\ outcome'.status \in {"completed", "returned"})
     => model_exists[model_path']]_vars

\* --------------------------- properties of the perplexity driver (C7, C10)

\* The digits-and-dots run stated at position i of a text as
\* "perplexity = N" (any whitespace around "="); NoMatch when i does not
\* start such a statement.
StatedAt(text, i) ==
  LET a == SkipClass(text, i + Len(LitPerplexity), Ws)
      b == SkipClass(text, a + 1, Ws)
  IN IF /\ HasAt(text, i, LitPerplexity)
        /\ HasAt(text, a, <<"=">>)
        /\ b <= Len(text)
        /\ text[b] \in DigDot
     THEN SubSeq(text, b, SkipClass(text, b, DigDot) - 1)
     ELSE NoMatch

\* The numbers a text states as "perplexity = <float>".
StatedPerplexities(text) ==
  {n \in {StatedAt(text, i) : i \in 1..Len(text)} :
     n # NoMatch /\ FloatOk(n)}

\* The text holds "perplexity =" followed by digits or dots somewhere.
StatesPerplexity(text) ==
  \E i \in 1..Len(text) : StatedAt(text, i) # NoMatch

\* C7 (as claimed): once the perplexity process has returned its output,
\* compute_ppl returns a number when the output states one as
\* "perplexity = <float>", and exactly a number stated so; when the output
\* states none it fails with RuntimeError; and it returns nothing but a
\* number the output states (never 0 or another default).
C7_PerplexityOrFatal ==
  \A p \in Procs :
    ppl_output[p] # NoOutput =>
      LET ns == StatedPerplexities(ppl_output[p])
          r == ppl_result[p]
      IN /\ ns # {} =>
              /\ r.status = "returned"
              /\ \E n \in ns : r.value = FloatVal(n)
         /\ ~StatesPerplexity(ppl_output[p]) =>
              (r.status = "failed" /\ r.exc = "RuntimeError")
         /\ r.status = "returned" => \E n \in ns : r.value = FloatVal(n)
         /\ r.status # "none"

\* C10: a process starts the download only from its existence check, and
\* only when that check finds the corpus absent; a download is completed
\* only by a process that passed the check; the corpus, once on disk, stays;
\* and as long as one process alone has called (a sequential series of
\* calls), at most one download has succeeded.
C10_CheckThenFetch ==
  /\ [][\A p \in Procs :
          (ppl_pc[p] # "fetch" /\ ppl_pc'[p] = "fetch") =>
            (ppl_pc[p] = "idle" /\ corpus = "absent")]_vars
  /\ [][\A p \in Procs :
          (ppl_pc[p] \notin {"download", "clobbered"}
             /\ ppl_pc'[p] \in {"download", "clobbered"})
            => ppl_pc[p] = "fetch"]_vars
  /\ [][downloads' # downloads =>
          /\ downloads' = downloads + 1
          /\ corpus' # "absent"
          /\ \E p \in Procs :
               /\ ppl_pc[p] \in {"download", "clobbered"}
               /\ ppl_pc'[p] = "run"]_vars
  /\ [][corpus # "absent" => corpus' # "absent"]_vars
  /\ [](\A p \in Procs :
          (\A q \in Procs \ {p} : ppl_calls[q] = 0) => downloads <= 1)
  /\ [](downloads <= Cardinality(Procs))

\* C10 witness: two first calls, one per process, both found the corpus
\* absent and both downloaded it to the same path.
C10_Witness ==
  /\ \A p \in Procs : ppl_calls[p] = 1
  /\ downloads = 2
  /\ corpus = "complete"

\* ------------------------------------------------ the persisted result table

\* The header rows among the lines of a table.
HeaderLines(csv) ==
  {i \in 1..Len(csv.lines) : csv.lines[i].kind = "header"}

\* C11: over any sequence of calls the result table changes only when a
\* run_benchmark_menu call that got its rows writes them: what the file held
\* stays in place as a prefix, the run's rows (and nothing else) come after
\* it, preceded by the header exactly when the file did not exist before the
\* write; so an existing table starts with its only header row, and every
\* call that does not complete leaves the table as it was.
C11_AppendOnlyHeaderOnce ==
  /\ [][results_csv' # results_csv
        => (/\ entry = "run_benchmark_menu"
            /\ outcome'.status = "completed"
            /\ results_csv'.exists
            /\ Len(results_csv'.lines) >= Len(results_csv.lines)
            /\ SubSeq(results_csv'.lines, 1, Len(results_csv.lines))
                 = results_csv.lines
            /\ LET added == SubSeq(results_csv'.lines,
                                   Len(results_csv.lines) + 1,
                                   Len(results_csv'.lines))
               IN IF results_csv.exists
                  THEN added = results
                  ELSE /\ added # << >>
                       /\ Head(added) = CsvHeader
                       /\ Tail(added) = results)]_vars
  /\ [][(outcome'.status = "completed" /\ outcome' # outcome)
        => (/\ Len(results_csv'.lines) > Len(results_csv.lines)
            /\ results # << >>)]_vars
  /\ [](IF results_csv.exists
        THEN /\ HeaderLines(results_csv) = {1}
             /\ Len(results_csv.lines) >= 2
        ELSE results_csv.lines = << >>)

\* C11 witness: a second completed run wrote its rows to a table that an
\* earlier run had created: one header, then the rows of both runs.
C11_Witness ==
  /\ BenchmarkEnded
  /\ outcome.status = "completed"
  /\ runs >= 2
  /\ results # << >>
  /\ Len(results_csv.lines) > 1 + Len(results)
  /\ HeaderLines(results_csv) = {1}
  /\ SubSeq(results_csv.lines,
            Len(results_csv.lines) - Len(results) + 1,
            Len(results_csv.lines)) = results

\* C12: the result table is written, and the summary printed, only in the
\* step that follows the return of run_llama_benchmark with a row for every
\* prompt; a run that raises, at the first prompt or at a later one, ends
\* with the table exactly as it was when the run began (absent if it was
\* absent) and with no summary, whatever rows it had collected.
C12_AllOrNothing ==
  /\ [][(results_csv' # results_csv \/ (summary'.printed /\ ~summary.printed))
        => (/\ pc = "save"
            /\ prompts # << >>
            /\ Len(results) = Len(prompts)
            /\ \A k \in 1..Len(prompts) : results[k].PromptID = k
            /\ outcome.status = "running"
            /\ outcome'.status = "completed")]_vars
  /\ [][(entry' = "run_benchmark_menu" /\ outcome'.status = "failed")
        => (/\ results_csv' = results_csv
            /\ ~summary'.printed)]_vars
  /\ [](pc \in {"loop", "save"} => ~summary.printed)

\* C12 witness: a run raised at its second prompt, after the row of the
\* first prompt was collected; the table was not created and nothing is
\* printed.
C12_Witness ==
  /\ BenchmarkEnded
  /\ outcome.status = "failed"
  /\ Len(prompts) = 2
  /\ Len(results) = 1
  /\ results_csv = NoCsv
  /\ ~summary.printed

====
